---- MODULE Spec2Model ----
(***************************************************************************)
(* A model of @cardano-ogmios/mdk (lib/index.mjs): the `ogmios` connection *)
(* wrapper, the `request` helper behind queryLedgerState / queryNetwork,   *)
(* the pipelined chain follower returned by `newChainFollower`, and the    *)
(* safe JSON codec (Json.parse with its sanitize pass, Json.stringify).    *)
(*                                                                         *)
(* JavaScript runs one task at a time: every action below is one task of   *)
(* the event loop (an event emitted by the socket, a call made by the      *)
(* application, a resumption of the async generator) taken as a whole.     *)
(***************************************************************************)
EXTENDS Integers, Sequences, FiniteSets, TLC

\* ------------------------------------------------------------------ bounds

\* Inbound messages the peer delivers in one run.
MaxMessages == 105
\* Calls of queryLedgerState / queryNetwork / rpc the application makes.
MaxAsks == 3
\* Levels of nesting in the chains of objects decoded.
MaxDepth == 3

\* ------------------------------------------------------- program constants

INITIAL_PIPELINE_BURST == 100
\* The close code of a normal closure (ws.once("close") tests code !== 1000).
NormalClosure == 1000

\* ------------------------------------------------------------------ values

\* JavaScript values are tagged records, so that any two can be compared.
Undef == [t |-> "undefined"]
Num(k) == [t |-> "number", int |-> TRUE, n |-> k]
\* A number that is not an integer (1.5): only its kind matters.
Frac == [t |-> "number", int |-> FALSE, n |-> 1]
Str(s) == [t |-> "string", s |-> s]
Bool(b) == [t |-> "boolean", b |-> b]
\* A point of the chain; the peer knows the points of a positive slot.
Point(slot) == [t |-> "point", slot |-> slot]
\* An array of points.
Points(items) == [t |-> "array", items |-> items]

\* v == undefined (loose equality: true of undefined and null).
IsNullish(v) == v.t \in {"undefined", "null"}
\* typeof v === "number"
IsNumber(v) == v.t = "number"
\* Array.isArray(v)
IsArray(v) == v.t = "array"
\* Number.isInteger(v)
NumberIsInteger(v) == v.t = "number" /\ v.int
\* The truthiness of a value, as `id && { id }` reads it.
Truthy(v) ==
  CASE v.t \in {"undefined", "null"} -> FALSE
    [] v.t = "number" -> v.n # 0
    [] v.t = "string" -> v.s # ""
    [] v.t = "boolean" -> v.b
    [] OTHER -> TRUE

Min(a, b) == IF a <= b THEN a ELSE b

\* Array.prototype.unshift: insert at the front.
Unshift(q, x) == <<x>> \o q
\* Array.prototype.pop: the last element, and the array without it.
Last(q) == q[Len(q)]
Front(q) == SubSeq(q, 1, Len(q) - 1)

\* A promise: pending, or settled once with a value.
PendingPromise == [st |-> "pending", v |-> Undef]
\* resolve(v) / reject(v) of a promise: only the first call settles it.
Settle(p, how, v) == IF p.st = "pending" THEN [st |-> how, v |-> v] ELSE p

\* Errors the engine makes itself.
ErrExpectedArray == [t |-> "error", message |-> "expected an Array to start 'start'"]
ErrExpectedInteger == [t |-> "error", message |-> "expected an Integer 'count'"]
\* A TypeError thrown by the runtime (reading a property of undefined).
TypeError == [t |-> "error", message |-> "TypeError"]

VARIABLES
  isBrowser,    \* the runtime: a browser (polyfilled socket) or Node.js (ws)
  readyState,   \* the socket: "connecting", "open", "closing", "closed"
  closeCode,    \* the code of the socket's "close" event (0: not closed)
  errored,      \* the socket has emitted "error"
  result,       \* the promise returned by ogmios(...)
  output,       \* `let output` of ogmios
  inner,        \* new Promise((done) => callback(ws, done))
  sent,         \* the requests written to the channel, in order
  delivered,    \* how many inbound messages have been emitted
  refused,      \* the requests the peer answers with an error of its own
  listeners,    \* the "message" listeners registered on the socket, in order
  asks,         \* the promises returned by request(...), in call order
  follower,     \* newChainFollower's closure: its promise, count, n, ignoredFirstRollBack
  tasks,        \* `tasks`: promise ids, newest first
  signals,      \* `signals`: notification sinks, newest first
  promises,     \* the promises created by enqueue, by id
  gen,          \* the async generator: its position, `i`, the promise it awaits
  yielded,      \* what the generator has yielded to the consumer
  uncaught,     \* exceptions thrown out of event listeners
  input,        \* the text given to Json.parse
  decoded,      \* what Json.parse made of it
  encoded,      \* what Json.stringify made of that
  redecoded     \* what Json.parse made of the text encoded

vars == <<isBrowser, readyState, closeCode, errored, result, output, inner, sent, delivered,
          refused,
          listeners, asks, follower, tasks, signals, promises, gen, yielded,
          uncaught, input, decoded, encoded, redecoded>>

connVars == <<readyState, closeCode, errored, result, output, inner>>
engineVars == <<sent, listeners, asks, follower, tasks, signals, promises, uncaught>>
genVars == <<gen, yielded>>
codecVars == <<input, decoded, encoded, redecoded>>

\* The mutable state the message handlers share, as one record.
Eng ==
  [ls |-> listeners, sent |-> sent, asks |-> asks, fol |-> follower,
   tasks |-> tasks, signals |-> signals, promises |-> promises,
   uncaught |-> uncaught]

SetEng(e) ==
  /\ listeners' = e.ls
  /\ sent' = e.sent
  /\ asks' = e.asks
  /\ follower' = e.fol
  /\ tasks' = e.tasks
  /\ signals' = e.signals
  /\ promises' = e.promises
  /\ uncaught' = e.uncaught

\* ------------------------------------------------------------ the requests

\* `{}`, the default of `params`.
EmptyParams == [t |-> "object", points |-> Undef]
NoId == [t |-> "absent"]

newRpcRequest(method, params, id) ==
  [method |-> method,
   params |-> IF params.t = "undefined" THEN EmptyParams ELSE params,
   id |-> IF Truthy(id) THEN id ELSE NoId]

\* ws.rpc: one request written to the channel.
rpc(e, method, params, id) ==
  [e EXCEPT !.sent = Append(@, newRpcRequest(method, params, id))]

Listener(h, once, a) == [h |-> h, once |-> once, a |-> a]

\* A variant of request: ws.on for ws.once, the listener stays.
request_on(e, method, params) ==
  LET k == Len(e.asks) + 1
      e1 == [e EXCEPT !.asks = Append(@, PendingPromise),
                      !.ls = Append(@, Listener("request", FALSE, k))]
  IN rpc(e1, method, params, Undef)

\* request(method, params): a one-shot listener, then the request.
request(e, method, params) ==
  LET k == Len(e.asks) + 1
      e1 == [e EXCEPT !.asks = Append(@, PendingPromise),
                      !.ls = Append(@, Listener("request", TRUE, k))]
  IN rpc(e1, method, params, Undef)

\* ------------------------------------------------------- the chain follower

\* The closure of one newChainFollower call: its parameters `start` and
\* `count`, the promise it returns, `n` of requestBlocks and
\* `ignoredFirstRollBack` of addBlockListener.
NoFollower ==
  [called |-> FALSE, call |-> PendingPromise, start |-> Undef, count |-> Undef,
   n |-> 0, listening |-> FALSE, ignoredFirstRollBack |-> FALSE]

\* addBlockListener: a persistent listener, with its own flag.
addBlockListener(e) ==
  [e EXCEPT !.ls = Append(@, Listener("block", FALSE, 0)),
            !.fol.listening = TRUE,
            !.fol.ignoredFirstRollBack = FALSE]

\* count ?? dflt
CountOr(count, dflt) == IF IsNullish(count) THEN dflt ELSE count.n

\* A variant of the lambda: n <= count + 1.
again_oneMore(fol) ==
  LET n1 == fol.n + 1
  IN [fol |-> [fol EXCEPT !.n = n1],
      ok |-> IsNullish(fol.count) \/ n1 <= fol.count.n + 1]

\* The lambda requestBlocks passes to enqueue: n += 1, then
\* n <= (count ?? Number.MAX_SAFE_INTEGER). Without a count the bound is
\* 2^53 - 1, which n, one more per request, stays below in any run.
again(fol) ==
  LET n1 == fol.n + 1
  IN [fol |-> [fol EXCEPT !.n = n1],
      ok |-> IsNullish(fol.count) \/ n1 <= fol.count.n]

\* enqueue: a new promise at the front of tasks, its sink at the front of
\* signals (refilling when again() says so), and one nextBlock request.
enqueue(e) ==
  LET a == again(e.fol)
      p == Len(e.promises) + 1
  IN [e EXCEPT !.fol = a.fol,
               !.promises = Append(@, PendingPromise),
               !.signals = Unshift(@, [again |-> a.ok, p |-> p]),
               !.sent = Append(@, newRpcRequest("nextBlock", Undef, Undef)),
               !.tasks = Unshift(@, p)]

\* A variant of pipelined: count ?? INITIAL_PIPELINE_BURST, without Math.min.
pipelined_noCap(count) == CountOr(count, INITIAL_PIPELINE_BURST)

\* Math.min(count ?? INITIAL_PIPELINE_BURST, INITIAL_PIPELINE_BURST)
pipelined(count) ==
  Min(CountOr(count, INITIAL_PIPELINE_BURST), INITIAL_PIPELINE_BURST)

\* enqueue, `times` times in a row. The run is cut in halves and the first
\* half is evaluated (its n is read) before the second starts from it, which
\* keeps the evaluation shallow.
RECURSIVE enqueueTimes(_, _)
enqueueTimes(e, times) ==
  IF times <= 0 THEN e
  ELSE IF times = 1 THEN enqueue(e)
  ELSE LET half == enqueueTimes(e, times \div 2)
       IN IF half.fol.n >= e.fol.n
            THEN enqueueTimes(half, times - (times \div 2))
            ELSE half

\* A variant of requestBlocks: one turn too many (i <= pipelined + 1).
requestBlocks_oneMore(e) ==
  LET p == pipelined(e.fol.count)
  IN enqueueTimes([e EXCEPT !.fol.n = p], p + 2)

\* let n = pipelined; for (let i = 0; i <= pipelined; i += 1) enqueue(...):
\* pipelined + 1 turns of the loop.
requestBlocks(e) ==
  LET p == pipelined(e.fol.count)
  IN enqueueTimes([e EXCEPT !.fol.n = p], p + 1)

\* notify(block) of a sink: a refilling sink enqueues first, then resolves.
notify(e, sig, v) ==
  LET e1 == IF sig.again THEN enqueue(e) ELSE e
  IN [e1 EXCEPT !.promises[sig.p] = Settle(@, "resolved", v)]

\* What a handler hands back: the state, and whether it threw.
Ran(e) == [e |-> e, threw |-> FALSE]
Threw(e) == [e |-> e, threw |-> TRUE]

\* The listener of request(): settle the ask with the message.
onRequestMessage(e, l, msg) ==
  IF msg.error # Undef
    THEN Ran([e EXCEPT !.asks[l.a] = Settle(@, "rejected", msg.error)])
    ELSE Ran([e EXCEPT !.asks[l.a] = Settle(@, "resolved", msg.result)])

\* A variant of the block listener: signals.shift() for signals.pop(), the
\* newest sink instead of the oldest.
onBlockMessage_newestSink(e, l, msg) ==
  IF msg.result = Undef
    THEN Threw(e)
    ELSE IF msg.result.direction = "backward" /\ ~e.fol.ignoredFirstRollBack
      THEN Ran([e EXCEPT !.fol.ignoredFirstRollBack = TRUE])
      ELSE IF e.signals = <<>>
        THEN Threw(e)
        ELSE Ran(notify([e EXCEPT !.signals = Tail(@)], Head(e.signals),
                        [t |-> "event", direction |-> msg.result.direction,
                         block |-> msg.result.block]))

\* A variant of the block listener: every roll-backward is ignored, not
\* only the first.
onBlockMessage_everyRollBack(e, l, msg) ==
  IF msg.result = Undef
    THEN Threw(e)
    ELSE IF msg.result.direction = "backward"
      THEN Ran([e EXCEPT !.fol.ignoredFirstRollBack = TRUE])
      ELSE IF e.signals = <<>>
        THEN Threw(e)
        ELSE Ran(notify([e EXCEPT !.signals = Front(@)], Last(e.signals),
                        [t |-> "event", direction |-> msg.result.direction,
                         block |-> msg.result.block]))

\* The listener of addBlockListener.
onBlockMessage(e, l, msg) ==
  IF msg.result = Undef
    THEN Threw(e)
    ELSE IF msg.result.direction = "backward" /\ ~e.fol.ignoredFirstRollBack
      THEN Ran([e EXCEPT !.fol.ignoredFirstRollBack = TRUE])
      ELSE IF e.signals = <<>>
        THEN Threw(e)
        ELSE Ran(notify([e EXCEPT !.signals = Front(@)], Last(e.signals),
                        [t |-> "event", direction |-> msg.result.direction,
                         block |-> msg.result.block]))

\* A variant of the explicit negotiation: reject(error) without `return`.
onIntersection_noReturn(e, l, msg) ==
  LET e1 == IF msg.error # Undef
              THEN [e EXCEPT !.fol.call = Settle(@, "rejected", msg.error)]
              ELSE e
  IN Ran([requestBlocks(addBlockListener(e1))
            EXCEPT !.fol.call = Settle(@, "resolved", Undef)])

\* The listener of the explicit negotiation (start given).
onIntersection(e, l, msg) ==
  IF msg.error # Undef
    THEN Ran([e EXCEPT !.fol.call = Settle(@, "rejected", msg.error)])
    ELSE Ran([requestBlocks(addBlockListener(e))
                EXCEPT !.fol.call = Settle(@, "resolved", Undef)])

IntersectParams(points) == [t |-> "object", points |-> points]

\* A variant of the first listener: the intersection is asked for without
\* waiting for the tip, at a point of its own.
onTip_ownPoint(e, l, msg) ==
  IF msg.result = Undef
    THEN Threw(e)
    ELSE Ran(rpc([e EXCEPT !.ls = Append(@, Listener("tipIntersection", TRUE, 0))],
                 "findIntersection", IntersectParams(Points(<<Point(5)>>)), Undef))

\* The first listener of the tip-derived negotiation: read the tip, ask for
\* an intersection there.
onTip(e, l, msg) ==
  IF msg.result = Undef
    THEN Threw(e)
    ELSE Ran(rpc([e EXCEPT !.ls = Append(@, Listener("tipIntersection", TRUE, 0))],
                 "findIntersection", IntersectParams(Points(<<msg.result.tip>>)), Undef))

\* Its second listener: whatever the message, start.
onTipIntersection(e, l, msg) ==
  Ran([requestBlocks(addBlockListener(e))
         EXCEPT !.fol.call = Settle(@, "resolved", Undef)])

Handle(e, l, msg) ==
  CASE l.h = "request" -> onRequestMessage(e, l, msg)
    [] l.h = "block" -> onBlockMessage(e, l, msg)
    [] l.h = "intersection" -> onIntersection(e, l, msg)
    [] l.h = "tip" -> onTip(e, l, msg)
    [] l.h = "tipIntersection" -> onTipIntersection(e, l, msg)

\* removeListener: the first registration of l goes.
RECURSIVE RemoveFirst(_, _)
RemoveFirst(q, l) ==
  IF q = <<>> THEN <<>>
  ELSE IF Head(q) = l THEN Tail(q)
  ELSE <<Head(q)>> \o RemoveFirst(Tail(q), l)

\* A variant of emit: the message goes to the first listener only.
emit_firstOnly(e, snapshot, msg, browser) ==
  IF snapshot = <<>> THEN e
  ELSE LET l == Head(snapshot)
           e1 == IF l.once THEN [e EXCEPT !.ls = RemoveFirst(@, l)] ELSE e
           r == Handle(e1, l, msg)
       IN IF r.threw THEN [r.e EXCEPT !.uncaught = Append(@, l.h)] ELSE r.e

\* emit("message", data): the listeners registered when the event fires run in
\* registration order, a one-shot listener being removed before it runs. On
\* Node.js an exception leaves emit, so the later listeners do not run; a
\* browser reports it and goes on.
RECURSIVE emit(_, _, _, _)
emit(e, snapshot, msg, browser) ==
  IF snapshot = <<>> THEN e
  ELSE LET l == Head(snapshot)
           e1 == IF l.once THEN [e EXCEPT !.ls = RemoveFirst(@, l)] ELSE e
           r == Handle(e1, l, msg)
           e2 == IF r.threw THEN [r.e EXCEPT !.uncaught = Append(@, l.h)] ELSE r.e
       IN IF r.threw /\ ~browser THEN e2 ELSE emit(e2, Tail(snapshot), msg, browser)

\* A variant of newChainFollower: `count` is checked after the negotiation
\* has been started.
newChainFollower_lateCheck(e, start0, count0) ==
  LET short == IsNumber(start0) /\ IsNullish(count0)
      count == IF short THEN start0 ELSE count0
      start == IF short THEN Undef ELSE start0
      e0 == [e EXCEPT !.fol.called = TRUE, !.fol.start = start, !.fol.count = count]
      e1 == IF ~IsNullish(start)
              THEN rpc([e0 EXCEPT !.ls = Append(@, Listener("intersection", TRUE, 0))],
                       "findIntersection", IntersectParams(start), Undef)
              ELSE rpc([e0 EXCEPT !.ls = Append(@, Listener("tip", TRUE, 0))],
                       "nextBlock", Undef, Undef)
  IN IF ~IsNullish(start) /\ ~IsArray(start)
       THEN [e0 EXCEPT !.fol.call = Settle(@, "rejected", ErrExpectedArray)]
     ELSE IF ~IsNullish(count) /\ ~NumberIsInteger(count)
       THEN [e1 EXCEPT !.fol.call = Settle(@, "rejected", ErrExpectedInteger)]
     ELSE e1

\* newChainFollower(start, count) up to its first await.
newChainFollower(e, start0, count0) ==
  LET short == IsNumber(start0) /\ IsNullish(count0)
      count == IF short THEN start0 ELSE count0
      start == IF short THEN Undef ELSE start0
      e0 == [e EXCEPT !.fol.called = TRUE, !.fol.start = start, !.fol.count = count]
  IN IF ~IsNullish(start) /\ ~IsArray(start)
       THEN [e0 EXCEPT !.fol.call = Settle(@, "rejected", ErrExpectedArray)]
     ELSE IF ~IsNullish(count) /\ ~NumberIsInteger(count)
       THEN [e0 EXCEPT !.fol.call = Settle(@, "rejected", ErrExpectedInteger)]
     ELSE IF ~IsNullish(start)
       THEN rpc([e0 EXCEPT !.ls = Append(@, Listener("intersection", TRUE, 0))],
                "findIntersection", IntersectParams(start), Undef)
       ELSE rpc([e0 EXCEPT !.ls = Append(@, Listener("tip", TRUE, 0))],
                "nextBlock", Undef, Undef)

\* ---------------------------------------------------------------- safe JSON

\* A BigInt; `wide` says that it lies outside the safe integers of a Number
\* (beyond 2^53 - 1), whatever n is.
BigInt(n, wide) == [t |-> "bigint", n |-> n, wide |-> wide]
Null == [t |-> "null"]
\* An object, or an array (an object whose keys are "0", "1", ...).
Obj(f) == [t |-> "object", f |-> f]
Arr(f) == [t |-> "array", f |-> f]

\* A JSON text is the tree of its tokens: the same objects, arrays, strings
\* and null, and number literals in place of numbers. A literal is a run of
\* digits (an integer, in or out of the safe range) or has a fraction.
Lit(n, wide) == [t |-> "lit", int |-> TRUE, n |-> n, wide |-> wide]
FracLit == [t |-> "lit", int |-> FALSE, n |-> 1, wide |-> FALSE]

\* What an exception leaves in place of the value being computed.
Throw(name) == [t |-> "throw", name |-> name]

\* typeof json === "object" && json !== null
IsObject(json) == json.t \in {"object", "array"}
\* json[k] !== undefined
Has(json, k) == IsObject(json) /\ k \in DOMAIN json.f

\* An exception was thrown somewhere while the tree was being made.
RECURSIVE Thrown(_)
Thrown(json) ==
  \/ json.t = "throw"
  \/ IsObject(json) /\ \E k \in DOMAIN json.f : Thrown(json.f[k])

\* $.parse of json-bigint with useNativeBigInt: an integer literal outside
\* the safe range is a BigInt, any other literal a Number; an object with a
\* key "constructor" is refused with a SyntaxError ("forbidden constructor").
RECURSIVE JsonBigParse(_)
JsonBigParse(str) ==
  IF IsObject(str)
    THEN IF "constructor" \in DOMAIN str.f
      THEN Throw("SyntaxError: forbidden constructor")
      ELSE [str EXCEPT !.f = [k \in DOMAIN str.f |-> JsonBigParse(str.f[k])]]
    ELSE IF str.t = "lit"
      THEN IF ~str.int THEN Frac
           ELSE IF str.wide THEN BigInt(str.n, TRUE)
           ELSE Num(str.n)
    ELSE IF str.t = "undefined" THEN Throw("SyntaxError")
    ELSE str

\* $.stringify of json-bigint: a BigInt is written as bare digits, like a
\* Number.
RECURSIVE JsonBigStringify(_)
JsonBigStringify(json) ==
  IF IsObject(json)
    THEN [json EXCEPT !.f = [k \in DOMAIN json.f |-> JsonBigStringify(json.f[k])]]
    ELSE IF json.t = "bigint" THEN Lit(json.n, json.wide)
    ELSE IF json.t = "number"
      THEN IF json.int THEN Lit(json.n, FALSE) ELSE FracLit
    ELSE json

\* typeof v === "number" ? BigInt(v) : v; BigInt of a Number that is not an
\* integer throws a RangeError.
BigIntIfNumber(v) ==
  IF v.t = "number"
    THEN IF v.int THEN BigInt(v.n, FALSE) ELSE Throw("RangeError")
    ELSE v

\* What a call of sanitize leaves: the tree it was given, as mutated in
\* place, and the value it returns.
Same(json) == [json |-> json, ret |-> json]

RECURSIVE sanitize(_, _)
RECURSIVE sanitizeFields(_, _)
RECURSIVE sanitizeAdditionalFields(_, _)
RECURSIVE sanitizeMetadatum(_)

\* sanitizeFields(json, fields): the fields named are converted, the others
\* sanitized under their own key.
sanitizeFields(json, fields) ==
  [json EXCEPT !.f =
     [k \in DOMAIN json.f |->
        IF k \in fields THEN BigIntIfNumber(json.f[k])
        ELSE sanitize(json.f[k], k).json]]

\* sanitizeAdditionalFields(json, depth): for (const k in json), recursing
\* while depth > 1 and converting the fields at depth 1. A number, a BigInt,
\* null or an empty string has no key to loop over; a string has its
\* indices, and the assignment json[k] = v to a string throws a TypeError
\* (a module is strict code).
sanitizeAdditionalFields(json, depth) ==
  IF IsObject(json)
    THEN [json EXCEPT !.f =
            [k \in DOMAIN json.f |->
               IF depth > 1 THEN sanitizeAdditionalFields(json.f[k], depth - 1)
               ELSE BigIntIfNumber(json.f[k])]]
    ELSE IF json.t = "string" /\ json.s # ""
      THEN Throw("TypeError")
      ELSE json

\* sanitizeMetadatum(json): every number of the tree, at any depth.
sanitizeMetadatum(json) ==
  IF IsObject(json)
    THEN [json EXCEPT !.f =
            [k \in DOMAIN json.f |->
               IF json.f[k].t = "number" THEN BigIntIfNumber(json.f[k])
               ELSE sanitizeMetadatum(json.f[k])]]
    ELSE json

\* The parentKey of the top-level call: undefined.
NoParentKey == "undefined"

\* sanitize(json, parentKey): the first rule that applies.
sanitize(json, parentKey) ==
  IF IsObject(json)
    THEN IF Has(json, "lovelace")
        THEN Same(sanitizeFields(json, {"lovelace"}))
      ELSE IF Has(json, "ada") \/ parentKey = "mint" \/ parentKey = "value"
        THEN Same(sanitizeAdditionalFields(json, 2))
      ELSE IF Has(json, "clause") /\ json.f["clause"] = Str("some") /\ Has(json, "atLeast")
        THEN LET j1 == sanitizeFields(json, {"atLeast"})
                 from == IF Has(j1, "from") THEN sanitize(j1.f["from"], "from")
                         ELSE Same(Undef)
             IN [json |-> IF Has(j1, "from") THEN [j1 EXCEPT !.f["from"] = from.json]
                          ELSE j1,
                 ret |-> from.ret]
      ELSE IF parentKey = "labels"
        THEN Same(sanitizeMetadatum(json))
      ELSE Same([json EXCEPT !.f = [k \in DOMAIN json.f |-> sanitize(json.f[k], k).json]])
    ELSE Same(json)

\* str.toString().replace(/"constructor"/g, '"constr"'): every key and every
\* string that is exactly "constructor".
RECURSIVE replaceConstructor(_)
replaceConstructor(str) ==
  LET renamed(k) == IF k = "constructor" THEN "constr" ELSE k
  IN IF IsObject(str)
       THEN [str EXCEPT !.f =
               [k2 \in {renamed(k) : k \in DOMAIN str.f} |->
                  replaceConstructor(
                    str.f[CHOOSE k \in DOMAIN str.f : renamed(k) = k2])]]
       ELSE IF str = Str("constructor") THEN Str("constr")
       ELSE str

\* The names of the exceptions thrown while the tree was being made.
RECURSIVE ThrownNames(_)
ThrownNames(json) ==
  IF json.t = "throw" THEN {json.name}
  ELSE IF IsObject(json)
    THEN UNION {ThrownNames(json.f[k]) : k \in DOMAIN json.f}
    ELSE {}

ForbiddenConstructor == "SyntaxError: forbidden constructor"

\* An exception that leaves Json.parse: one of `names`, the one that the
\* traversal, in the key order of the text, meets first.
Raised(names) == [t |-> "raised", names |-> names]

\* sanitize($.parse(str)): what it returns, or the exception that leaves it.
sanitizeParsed(str) ==
  LET parsed == JsonBigParse(str)
  IN IF Thrown(parsed) THEN Raised(ThrownNames(parsed))
     ELSE LET r == sanitize(parsed, NoParentKey)
          IN IF Thrown(r.json) THEN Raised(ThrownNames(r.json)) ELSE r.ret

\* Json.parse(str): a second try, on the text with "constructor" replaced,
\* after a SyntaxError that says "forbidden constructor"; any other
\* exception is thrown again.
parse(str) ==
  LET first == sanitizeParsed(str)
  IN IF first = Raised({ForbiddenConstructor})
       THEN sanitizeParsed(replaceConstructor(str))
       ELSE first

\* Json.stringify(...args)
stringify(json) == JsonBigStringify(json)

\* Nothing computed yet.
NotRun == [t |-> "none"]

\* ------------------------------------------------------------------ the peer

\* The index of the last findIntersection among the first k requests, or 0.
LastIntersection(k) ==
  LET S == {j \in 1..k : sent[j].method = "findIntersection"}
  IN IF S = {} THEN 0 ELSE CHOOSE j \in S : \A i \in S : i <= j

\* The number of the chain event that answers request k, a nextBlock: the
\* first nextBlock after a negotiation (or on a fresh connection) is answered
\* by the roll-backward to the intersection, event 0; the next ones by the
\* events 1, 2, ... of the chain.
EventOf(k) == k - LastIntersection(k) - 1

\* The chain the peer follows rolls back once, at its second event.
DirectionOf(ev) == IF ev \in {0, 2} THEN "backward" ELSE "forward"

Block(ev) == [t |-> "block", id |-> ev]

ResultMsg(k, direction, block) ==
  [error |-> Undef,
   result |-> [t |-> "object", direction |-> direction, block |-> block,
               tip |-> Point(k), of |-> k]]

ErrorMsg(k) ==
  [error |-> [t |-> "error", message |-> "Invalid request", of |-> k],
   result |-> Undef]

KnownPoints(points) ==
  /\ points.t = "array"
  /\ \E i \in DOMAIN points.items :
       points.items[i].t = "point" /\ points.items[i].slot > 0

\* The query methods the peer knows.
KnownMethods == {"queryLedgerState/tip", "queryNetwork/startTime"}

\* The peer's k-th message: the answer to the k-th request.
Response(k) ==
  LET r == sent[k]
  IN CASE k \in refused -> ErrorMsg(k)
       [] r.method = "findIntersection" ->
            IF KnownPoints(r.params.points)
              THEN ResultMsg(k, "undefined", Undef) ELSE ErrorMsg(k)
       [] r.method = "nextBlock" ->
            LET ev == EventOf(k)
            IN ResultMsg(k, DirectionOf(ev), IF ev = 0 THEN Undef ELSE Block(ev))
       [] OTHER ->
            IF r.method \in KnownMethods
              THEN ResultMsg(k, "undefined", Undef) ELSE ErrorMsg(k)

\* -------------------------------------------------------------- the socket

\* The close codes the socket may report: normal closure, going away,
\* abnormal closure (no close frame), internal error.
CloseCodes == {NormalClosure, 1001, 1006, 1011}
\* What the application may pass to done.
DoneValues == {Undef, Num(0), Str("a"), Str("b")}

TransportError == [t |-> "error", message |-> "connect ECONNREFUSED"]

\* The arguments a "close" listener gets: (code, reason) from ws on Node.js;
\* in a browser the polyfill's once() hands it the CloseEvent itself, which
\* has no `data`, and nothing else.
CloseArgs(browser, code) ==
  IF browser
    THEN [code |-> [t |-> "CloseEvent", code |-> code], reason |-> Undef]
    ELSE [code |-> Num(code), reason |-> Str("")]

\* ws.once("close", (code, reason, data) => ...): the promise afterwards, and
\* whether the listener threw (reason.toString() of undefined).
onClose(res, out, args) ==
  IF args.code # Num(NormalClosure)
    THEN IF args.reason = Undef
      THEN [result |-> res, threw |-> TRUE]
      ELSE [result |-> Settle(res, "rejected",
                               [t |-> "error", message |-> "connection ended with error.",
                                code |-> args.code, reason |-> args.reason]),
            threw |-> FALSE]
    ELSE [result |-> Settle(res, "resolved", out), threw |-> FALSE]

Init ==
  /\ isBrowser \in BOOLEAN
  /\ readyState = "connecting"
  /\ closeCode = 0
  /\ errored = FALSE
  /\ result = PendingPromise
  /\ output = Undef
  /\ inner = [st |-> "none", v |-> Undef]
  /\ sent = <<>>
  /\ delivered = 0
  /\ refused = {}
  /\ listeners = <<>>
  /\ asks = <<>>
  /\ follower = NoFollower
  /\ tasks = <<>>
  /\ signals = <<>>
  /\ promises = <<>>
  /\ gen = [pos |-> "idle", i |-> 0, p |-> 0]
  /\ yielded = <<>>
  /\ uncaught = <<>>
  /\ input = NotRun
  /\ decoded = NotRun
  /\ encoded = NotRun
  /\ redecoded = NotRun

\* "open": the application's callback runs, holding `done`.
OnOpen ==
  /\ readyState = "connecting"
  /\ ~errored
  /\ readyState' = "open"
  /\ inner' = PendingPromise
  /\ UNCHANGED <<isBrowser, closeCode, errored, result, output, delivered>>
  /\ UNCHANGED codecVars
  /\ UNCHANGED refused
  /\ UNCHANGED engineVars
  /\ UNCHANGED genVars

\* "close", at most once; a connection that never opened closes abnormally.
OnClose(code) ==
  /\ readyState # "closed"
  /\ readyState = "connecting" => code = 1006
  /\ readyState' = "closed"
  /\ closeCode' = code
  /\ LET r == onClose(result, output, CloseArgs(isBrowser, code))
     IN /\ result' = r.result
        /\ uncaught' = IF r.threw THEN Append(uncaught, "close") ELSE uncaught
  /\ UNCHANGED <<isBrowser, errored, output, inner, delivered>>
  /\ UNCHANGED codecVars
  /\ UNCHANGED refused
  /\ UNCHANGED <<sent, listeners, asks, follower, tasks, signals, promises>>
  /\ UNCHANGED genVars

\* "error", at most once and before "close": ws.once("error", reject).
OnError ==
  /\ readyState # "closed"
  /\ ~errored
  /\ errored' = TRUE
  /\ result' = Settle(result, "rejected", TransportError)
  /\ UNCHANGED <<isBrowser, readyState, closeCode, output, inner, delivered>>
  /\ UNCHANGED codecVars
  /\ UNCHANGED refused
  /\ UNCHANGED engineVars
  /\ UNCHANGED genVars

\* The application calls done(v): the await in the "open" listener resumes in
\* the same turn of the event loop, sets output and closes the socket.
Done(v) ==
  /\ inner.st = "pending"
  /\ inner' = Settle(inner, "resolved", v)
  /\ output' = v
  /\ readyState' = IF readyState = "open" THEN "closing" ELSE readyState
  /\ UNCHANGED <<isBrowser, closeCode, errored, result, delivered>>
  /\ UNCHANGED codecVars
  /\ UNCHANGED refused
  /\ UNCHANGED engineVars
  /\ UNCHANGED genVars

\* The socket emits the peer's next message.
OnMessage ==
  /\ readyState \in {"open", "closing"}
  /\ ~errored
  /\ delivered < Len(sent)
  /\ delivered < MaxMessages
  /\ delivered' = delivered + 1
  /\ SetEng(emit(Eng, listeners, Response(delivered + 1), isBrowser))
  /\ UNCHANGED connVars
  /\ UNCHANGED genVars
  /\ UNCHANGED <<isBrowser>>
  /\ UNCHANGED codecVars
  /\ UNCHANGED refused

\* The peer makes up its mind to answer the next request of a handshake
\* with an error (the tip has moved, the request is not accepted).
Refuse ==
  /\ readyState \in {"open", "closing"}
  /\ delivered < Len(sent)
  /\ ~follower.listening
  /\ delivered + 1 \notin refused
  /\ refused' = refused \cup {delivered + 1}
  /\ UNCHANGED <<isBrowser, delivered>>
  /\ UNCHANGED connVars
  /\ UNCHANGED engineVars
  /\ UNCHANGED genVars
  /\ UNCHANGED <<input, decoded, encoded, redecoded>>

\* -------------------------------------------------------- the application

\* The `start` and `count` arguments the application may give.
StartInputs == {Undef, Points(<<Point(5)>>), Points(<<Point(0)>>), Str("foo"), Num(1)}
CountInputs ==
  {Undef, Num(-1), Num(0), Num(1), Num(2), Num(INITIAL_PIPELINE_BURST),
   Num(INITIAL_PIPELINE_BURST + 2), Frac, Str("bar")}

\* await ws.newChainFollower(start, count), once per connection.
StartFollower(start, count) ==
  /\ inner.st # "none"
  /\ ~follower.called
  /\ SetEng(newChainFollower(Eng, start, count))
  /\ UNCHANGED connVars
  /\ UNCHANGED genVars
  /\ UNCHANGED <<isBrowser, delivered>>
  /\ UNCHANGED codecVars
  /\ UNCHANGED refused

\* ws.queryLedgerState(method, params) / ws.queryNetwork(method, params)
queryLedgerState(e, method, params) == request(e, "queryLedgerState/" \o method, params)
queryNetwork(e, method, params) == request(e, "queryNetwork/" \o method, params)

\* The query names the application may ask for.
LedgerQueries == {"tip", "foo"}
NetworkQueries == {"startTime"}

\* No ask is waiting for its answer.
AsksSettled == \A k \in 1..Len(asks) : asks[k].st # "pending"

\* await ws.queryLedgerState(method): one ask at a time.
AskLedger(method) ==
  /\ inner.st # "none"
  /\ Len(asks) < MaxAsks
  /\ AsksSettled
  /\ SetEng(queryLedgerState(Eng, method, Undef))
  /\ UNCHANGED connVars
  /\ UNCHANGED genVars
  /\ UNCHANGED <<isBrowser, delivered>>
  /\ UNCHANGED codecVars
  /\ UNCHANGED refused

\* await ws.queryNetwork(method): one ask at a time.
AskNetwork(method) ==
  /\ inner.st # "none"
  /\ Len(asks) < MaxAsks
  /\ AsksSettled
  /\ SetEng(queryNetwork(Eng, method, Undef))
  /\ UNCHANGED connVars
  /\ UNCHANGED genVars
  /\ UNCHANGED <<isBrowser, delivered>>
  /\ UNCHANGED codecVars
  /\ UNCHANGED refused

\* ws.queryLedgerState(method), not awaited: the next ask may follow before
\* the answer.
AskLedgerNoWait(method) ==
  /\ inner.st # "none"
  /\ Len(asks) < MaxAsks
  /\ SetEng(queryLedgerState(Eng, method, Undef))
  /\ UNCHANGED connVars
  /\ UNCHANGED genVars
  /\ UNCHANGED <<isBrowser, delivered>>
  /\ UNCHANGED codecVars
  /\ UNCHANGED refused

\* ws.queryNetwork(method), not awaited.
AskNetworkNoWait(method) ==
  /\ inner.st # "none"
  /\ Len(asks) < MaxAsks
  /\ SetEng(queryNetwork(Eng, method, Undef))
  /\ UNCHANGED connVars
  /\ UNCHANGED genVars
  /\ UNCHANGED <<isBrowser, delivered>>
  /\ UNCHANGED codecVars
  /\ UNCHANGED refused

\* The calls of ws.rpc the application may make: a method with its params,
\* and an id of any kind, or none.
RpcCalls ==
  {<<"findIntersection", IntersectParams(Points(<<Point(5)>>))>>,
   <<"queryLedgerState/tip", Undef>>}
RpcIds ==
  {Undef, Str("myRequest"), Str(""), Num(1), Num(0), Bool(TRUE), Bool(FALSE)}

\* ws.rpc(method, params, id), called by the application.
Rpc(method, params, id) ==
  /\ inner.st # "none"
  /\ Len(sent) < MaxAsks
  /\ SetEng(rpc(Eng, method, params, id))
  /\ UNCHANGED connVars
  /\ UNCHANGED genVars
  /\ UNCHANGED <<isBrowser, delivered>>
  /\ UNCHANGED codecVars
  /\ UNCHANGED refused

\* The documents decoded: chains of objects of one field each, down to a
\* leaf; quantity maps of two fields; multi-signature clauses, with and
\* without `from`, alone and inside a document; objects with a field
\* "constructor".
JsonLeaves == {Lit(1, FALSE), Lit(7, TRUE), FracLit, Str("a"), Null}
ChainKeys == {"lovelace", "ada", "mint", "value", "labels", "x"}

RECURSIVE Chains(_)
Chains(depth) ==
  IF depth = 0 THEN JsonLeaves
  ELSE LET below == Chains(depth - 1)
       IN below \cup {Obj(k :> v) : k \in ChainKeys, v \in below}

QuantityMaps ==
  {Obj(("ada" :> a) @@ ("x" :> b)) : a, b \in Chains(1)}

Clauses ==
  LET from == {Arr("0" :> v) : v \in Chains(1)}
      head == {("clause" :> Str(c)) @@ ("atLeast" :> n) :
                 c \in {"some", "any"}, n \in {Lit(1, FALSE), Lit(7, TRUE)}}
  IN {Obj(h) : h \in head} \cup {Obj(h @@ ("from" :> f)) : h \in head, f \in from}

Constructors ==
  {Obj(("constructor" :> v) @@ ("fields" :> Str(w))) :
     v \in Chains(1), w \in {"a", "constructor"}}

JsonTexts ==
  Chains(MaxDepth) \cup QuantityMaps \cup Clauses
    \cup {Obj("script" :> c) : c \in Clauses}
    \cup {Obj("from" :> Arr("0" :> c)) : c \in Clauses}
    \cup Constructors \cup {Obj("x" :> c) : c \in Constructors}

\* Json.parse(text), once.
Decode(text) ==
  /\ input = NotRun
  /\ input' = text
  /\ decoded' = parse(text)
  /\ UNCHANGED <<encoded, redecoded>>
  /\ UNCHANGED <<isBrowser, delivered, refused>>
  /\ UNCHANGED connVars
  /\ UNCHANGED engineVars
  /\ UNCHANGED genVars

\* Json.stringify of the value decoded.
Encode ==
  /\ decoded # NotRun
  /\ decoded.t # "raised"
  /\ encoded = NotRun
  /\ encoded' = stringify(decoded)
  /\ UNCHANGED <<input, decoded, redecoded>>
  /\ UNCHANGED <<isBrowser, delivered, refused>>
  /\ UNCHANGED connVars
  /\ UNCHANGED engineVars
  /\ UNCHANGED genVars

\* Json.parse of the text encoded.
DecodeAgain ==
  /\ encoded # NotRun
  /\ redecoded = NotRun
  /\ redecoded' = parse(encoded)
  /\ UNCHANGED <<input, decoded, encoded>>
  /\ UNCHANGED <<isBrowser, delivered, refused>>
  /\ UNCHANGED connVars
  /\ UNCHANGED engineVars
  /\ UNCHANGED genVars

\* await ws.queryLedgerState(method), once the follower's sequence has ended.
AskAfterFollower(method) ==
  /\ gen.pos = "done"
  /\ AskLedger(method)

\* tasks.pop(), then await: the generator waits for that promise (p = 0: for
\* no promise at all, tasks being empty).
popTask(e, g, pos) ==
  IF e.tasks = <<>>
    THEN [e |-> e, g |-> [g EXCEPT !.pos = pos, !.p = 0]]
    ELSE [e |-> [e EXCEPT !.tasks = Front(@)],
          g |-> [g EXCEPT !.pos = pos, !.p = Last(e.tasks)]]

\* A variant of the generator: the last sink is not notified before the
\* last task is awaited.
genPull_noDrain(e, g) ==
  IF ~IsNullish(e.fol.count)
    THEN IF g.i < e.fol.count.n
      THEN popTask(e, g, "awaitTask")
      ELSE popTask(e, g, "awaitDrain")
    ELSE popTask(e, g, "awaitTask")

\* The generator's body from a pull to its next await.
genPull(e, g) ==
  IF ~IsNullish(e.fol.count)
    THEN IF g.i < e.fol.count.n
      THEN popTask(e, g, "awaitTask")
      ELSE IF e.signals = <<>>
        THEN [e |-> e, g |-> [g EXCEPT !.pos = "threw"]]
        ELSE popTask(notify([e EXCEPT !.signals = Front(@)], Last(e.signals), Undef),
                     g, "awaitDrain")
    ELSE popTask(e, g, "awaitTask")

\* The consumer pulls the next item (for await, or next()).
Pull ==
  /\ follower.call.st = "resolved"
  /\ gen.pos = "idle"
  /\ LET r == genPull(Eng, gen)
     IN /\ SetEng(r.e)
        /\ gen' = r.g
  /\ UNCHANGED connVars
  /\ UNCHANGED <<isBrowser, delivered, yielded>>
  /\ UNCHANGED codecVars
  /\ UNCHANGED refused

\* The value of the promise the generator awaits.
Awaited(g) == IF g.p = 0 THEN Undef ELSE promises[g.p].v

\* A variant of the generator: without a count, the loop ends at an event
\* that carries no forward block.
genResume_endOnRollBack(g, v, finite) ==
  IF g.pos = "awaitDrain"
    THEN [g |-> [g EXCEPT !.pos = "done", !.p = 0], yield |-> FALSE]
    ELSE IF finite
      THEN [g |-> [g EXCEPT !.pos = "idle", !.p = 0, !.i = @ + 1], yield |-> TRUE]
      ELSE IF Truthy(v) /\ v.direction = "forward"
        THEN [g |-> [g EXCEPT !.pos = "idle", !.p = 0], yield |-> TRUE]
        ELSE [g |-> [g EXCEPT !.pos = "done", !.p = 0], yield |-> FALSE]

\* The generator's body from the end of an await to its yield or return.
genResume(g, v, finite) ==
  IF g.pos = "awaitDrain"
    THEN [g |-> [g EXCEPT !.pos = "done", !.p = 0], yield |-> FALSE]
    ELSE IF finite
      THEN [g |-> [g EXCEPT !.pos = "idle", !.p = 0, !.i = @ + 1], yield |-> TRUE]
      ELSE IF Truthy(v)
        THEN [g |-> [g EXCEPT !.pos = "idle", !.p = 0], yield |-> TRUE]
        ELSE [g |-> [g EXCEPT !.pos = "done", !.p = 0], yield |-> FALSE]

\* The awaited promise is resolved: the generator goes on.
Resume ==
  /\ gen.pos \in {"awaitTask", "awaitDrain"}
  /\ IF gen.p = 0 THEN TRUE ELSE promises[gen.p].st = "resolved"
  /\ LET r == genResume(gen, Awaited(gen), ~IsNullish(follower.count))
     IN /\ gen' = r.g
        /\ yielded' = IF r.yield THEN Append(yielded, Awaited(gen)) ELSE yielded
  /\ UNCHANGED connVars
  /\ UNCHANGED engineVars
  /\ UNCHANGED <<isBrowser, delivered>>
  /\ UNCHANGED codecVars
  /\ UNCHANGED refused

\* ------------------------------------------------------- the specification

\* The application follows the chain.
Next ==
  \/ OnOpen
  \/ OnMessage
  \/ \E start \in StartInputs, count \in CountInputs : StartFollower(start, count)
  \/ Pull
  \/ Resume

Spec == Init /\ [][Next]_vars

\* The application asks one query after the other.
NextAsk ==
  \/ OnOpen
  \/ OnMessage
  \/ \E method \in LedgerQueries : AskLedger(method)
  \/ \E method \in NetworkQueries : AskNetwork(method)

SpecAsk == Init /\ [][NextAsk]_vars

\* The life of the connection: open, done, error, close in any order.
NextConn ==
  \/ OnOpen
  \/ \E v \in DoneValues : Done(v)
  \/ OnError
  \/ \E code \in CloseCodes : OnClose(code)

SpecConn == Init /\ [][NextConn]_vars

\* The application writes requests of its own with ws.rpc.
NextRpc ==
  \/ OnOpen
  \/ OnMessage
  \/ \E call \in RpcCalls, id \in RpcIds : Rpc(call[1], call[2], id)

SpecRpc == Init /\ [][NextRpc]_vars

\* The application follows the chain, and the peer may refuse a request of
\* the handshake.
NextRefuse ==
  \/ OnOpen
  \/ OnMessage
  \/ Refuse
  \/ \E start \in {Undef, Points(<<Point(5)>>)}, count \in {Undef, Num(1), Num(2)} :
       StartFollower(start, count)
  \/ Pull
  \/ Resume

SpecRefuse == Init /\ [][NextRefuse]_vars

\* The application follows the chain for a few blocks, then asks queries on
\* the same channel.
NextAfter ==
  \/ OnOpen
  \/ OnMessage
  \/ \E start \in {Undef, Points(<<Point(5)>>)}, count \in {Num(0), Num(1), Num(2)} :
       StartFollower(start, count)
  \/ Pull
  \/ Resume
  \/ \E method \in LedgerQueries : AskAfterFollower(method)

SpecAfter == Init /\ [][NextAfter]_vars

\* Documents are decoded, encoded and decoded again.
NextJson ==
  \/ \E text \in JsonTexts : Decode(text)
  \/ Encode
  \/ DecodeAgain

SpecJson == Init /\ [][NextJson]_vars

\* The application follows the chain while the connection may fail or close.
NextClose ==
  \/ OnOpen
  \/ OnMessage
  \/ \E count \in {Num(1), Num(2), Num(3)} :
       StartFollower(Points(<<Point(5)>>), count)
  \/ Pull
  \/ Resume
  \/ OnError
  \/ \E code \in {NormalClosure, 1006} : OnClose(code)

\* The event loop runs every task that is ready, and the consumer (for await)
\* pulls again after each item.
SpecClose ==
  /\ Init
  /\ [][NextClose]_vars
  /\ WF_vars(OnMessage)
  /\ WF_vars(Pull)
  /\ WF_vars(Resume)

\* The application asks queries without waiting for the answers.
NextOverlap ==
  \/ OnOpen
  \/ OnMessage
  \/ \E method \in LedgerQueries : AskLedgerNoWait(method)
  \/ \E method \in NetworkQueries : AskNetworkNoWait(method)

SpecOverlap == Init /\ [][NextOverlap]_vars

\* ------------------------------------------------------------- the claims

\* The k-th chain event after the handshake's roll-backward, as the block
\* listener hands it over.
Event(k) == [t |-> "event", direction |-> DirectionOf(k), block |-> Block(k)]

\* The follower was started with a count, a non-negative integer.
FiniteCount == follower.call.st = "resolved" /\ ~IsNullish(follower.count) /\ follower.count.n >= 0

\* The events the block listener has handed to sinks so far: the messages
\* emitted since it was installed, less the handshake's roll-backward.
EventsDelivered ==
  IF follower.listening /\ delivered > LastIntersection(Len(sent)) + 1
    THEN delivered - LastIntersection(Len(sent)) - 1
    ELSE 0

\* The nextBlock requests written that the peer has not answered yet.
Outstanding ==
  Cardinality({k \in (delivered + 1)..Len(sent) : sent[k].method = "nextBlock"})

\* C1: a follower started with a finite count n yields the events in arrival
\* order: the k-th event after the handshake's roll-backward resolves the
\* promise of the k-th fetch request and is the k-th item yielded, and at the
\* end the n events have all been yielded.
C1_YieldedInArrivalOrder ==
  FiniteCount =>
    LET arrived == EventsDelivered
    IN /\ \A k \in 1..Len(yielded) : yielded[k] = Event(k)
       /\ \A k \in 1..Len(promises) :
            /\ k <= arrived => promises[k] = [st |-> "resolved", v |-> Event(k)]
            /\ promises[k].st = "resolved" /\ promises[k].v # Undef
                 => promises[k].v = Event(k)
       /\ gen.pos = "done" => Len(yielded) = follower.count.n

\* A count above the burst size has been served to its end.
C1_Witness ==
  /\ FiniteCount
  /\ follower.count.n > INITIAL_PIPELINE_BURST
  /\ gen.pos = "done"
  /\ Len(yielded) = follower.count.n

\* C2: with a finite count n >= 0, once the peer has answered every request
\* the sequence can always go on to its end, and at its end exactly n items
\* have been yielded, tasks and signals are empty, and every promise of the
\* window is resolved, one of them (the last) without a value.
C2_TerminatesClean ==
  FiniteCount =>
    /\ (delivered = Len(sent) /\ gen.pos # "done") => ENABLED (Pull \/ Resume)
    /\ gen.pos = "done" =>
         /\ Len(yielded) = follower.count.n
         /\ tasks = <<>>
         /\ signals = <<>>
         /\ Len(promises) = follower.count.n + 1
         /\ \A k \in 1..Len(promises) : promises[k].st = "resolved"
         /\ \A k \in 1..Len(promises) : promises[k].v = Undef <=> k = Len(promises)

\* A follower of two blocks has ended.
C2_Witness ==
  FiniteCount /\ follower.count.n = 2 /\ gen.pos = "done" /\ delivered = Len(sent)

IntersectionRefused ==
  /\ follower.called
  /\ IsArray(follower.start)
  /\ delivered >= 1
  /\ Response(1).error # Undef

\* C4: when points are given and the peer answers the intersection request
\* with an error, the start rejects with that error and the follower never
\* starts: no persistent listener, no fetch request, no window entry, no
\* item yielded.
C4_RefusedNeverStarts ==
  IntersectionRefused =>
    /\ follower.call = [st |-> "rejected", v |-> Response(1).error]
    /\ ~follower.listening
    /\ listeners = <<>>
    /\ \A k \in 1..Len(sent) : sent[k].method # "nextBlock"
    /\ promises = <<>> /\ tasks = <<>> /\ signals = <<>>
    /\ yielded = <<>> /\ gen.pos = "idle"

C4_Witness == IntersectionRefused /\ follower.call.st = "rejected"

\* The start call failed on its arguments.
InvalidArgument ==
  /\ follower.call.st = "rejected"
  /\ follower.call.v \in {ErrExpectedArray, ErrExpectedInteger}

\* C5: a start that fails because start is not an array or count is not an
\* integer has not touched the channel: nothing written, no listener.
C5_InvalidArgumentBeforeChannel ==
  InvalidArgument => sent = <<>> /\ listeners = <<>> /\ delivered = 0

C5_Witness ==
  /\ follower.call = [st |-> "rejected", v |-> ErrExpectedInteger]
  /\ IsArray(follower.start)

\* C6, as claimed: a start whose count is given and is not a non-negative
\* integer fails with an invalid-argument error, writes nothing and gives no
\* sequence to pull.
C6_NegativeCountRefused ==
  (follower.called /\ ~IsNullish(follower.count)
     /\ ~(NumberIsInteger(follower.count) /\ follower.count.n >= 0)) =>
    /\ InvalidArgument
    /\ sent = <<>>

\* What the k-th ask becomes with the k-th message: resolved with its
\* result, or rejected with its error.
AskOutcome(k) ==
  LET msg == Response(k)
  IN IF msg.error # Undef
       THEN [st |-> "rejected", v |-> msg.error]
       ELSE [st |-> "resolved", v |-> msg.result]

\* C7: asks made one after the other (no follower on the channel): the k-th
\* ask is pending until the k-th message, and from then on is settled with
\* it, resolved with its result or rejected with its error; an ask has one
\* listener while it is pending and none once settled.
C7_AsksSettleInOrder ==
  /\ Len(sent) = Len(asks)
  /\ \A k \in 1..Len(asks) :
       /\ k <= delivered => asks[k] = AskOutcome(k)
       /\ k > delivered => asks[k].st = "pending"
       /\ Cardinality({i \in 1..Len(listeners) : listeners[i].a = k})
            = IF asks[k].st = "pending" THEN 1 ELSE 0
  /\ \A i \in 1..Len(listeners) : listeners[i].a \in 1..Len(asks)

\* A rejected ask, then a resolved one, and a third waiting.
C7_Witness ==
  /\ Len(asks) = 3
  /\ asks[1].st = "rejected"
  /\ asks[2].st = "resolved"
  /\ asks[3].st = "pending"
  /\ Len(listeners) = 1

\* The generator waits for a promise that is still pending.
PullPending ==
  /\ gen.pos \in {"awaitTask", "awaitDrain"}
  /\ gen.p # 0
  /\ promises[gen.p].st = "pending"

\* C8, as claimed: a pull that is pending when the channel closes or errors
\* eventually fails.
C8_PendingPullFails ==
  (PullPending /\ (readyState = "closed" \/ errored)) ~> (gen.pos = "threw")

\* C9, as claimed: the engine closes the socket only after done was called,
\* and the promise of ogmios resolves only with the value given to done.
C9_ResolvesWithDoneValue ==
  /\ readyState = "closing" => inner.st = "resolved"
  /\ result.st = "resolved" => inner.st = "resolved" /\ result.v = inner.v

\* C10, as claimed: after a close with a code other than 1000, or after a
\* transport error, the promise of ogmios is rejected (never resolved), and
\* after an abnormal close that no error preceded it is rejected with an
\* error carrying the close code and the reason.
C10_AbnormalCloseRejects ==
  /\ (readyState = "closed" /\ closeCode # NormalClosure) => result.st = "rejected"
  /\ errored => result.st = "rejected"
  /\ (readyState = "closed" /\ closeCode # NormalClosure /\ ~errored) =>
       /\ result.v.t = "error"
       /\ result.v.message = "connection ended with error."
       /\ result.v.code = Num(closeCode)

\* C11: in both starts the block listener discards one message only, the
\* first it receives, which is the handshake's roll-backward; the k-th
\* message after it resolves the promise of the k-th window entry with
\* event k, later roll-backwards included, and the items yielded are the
\* events 1, 2, ... with none missing.
C11_DiscardsOnlyHandshake ==
  follower.listening =>
    LET first == LastIntersection(Len(sent)) + 1
        arrived == EventsDelivered
    IN /\ follower.ignoredFirstRollBack <=> delivered >= first
       /\ first <= Len(sent) => Response(first).result.direction = "backward"
       /\ \A k \in 1..arrived : promises[k] = [st |-> "resolved", v |-> Event(k)]
       /\ Cardinality({k \in 1..Len(promises) :
                         promises[k].st = "resolved" /\ promises[k].v # Undef}) = arrived
       /\ \A k \in 1..Len(yielded) : yielded[k] = Event(k)
       /\ \A i \in 1..Len(uncaught) : uncaught[i] # "block"

\* A tip-derived start whose consumer was handed the later roll-backward.
C11_Witness ==
  /\ follower.listening
  /\ IsNullish(follower.start)
  /\ follower.ignoredFirstRollBack
  /\ Len(yielded) >= 3
  /\ yielded[2].direction = "backward"

\* The follower was started without a count.
Unbounded == follower.call.st = "resolved" /\ IsNullish(follower.count)

\* C12: without a count, while the channel is open, the sequence never ends
\* on its own: the generator is either ready for a pull, with a task to pop,
\* or waiting for the task it popped; it neither returns nor throws.
C12_UnboundedNeverEnds ==
  Unbounded =>
    /\ gen.pos \in {"idle", "awaitTask"}
    /\ gen.pos = "idle" => tasks # <<>> /\ ENABLED Pull
    /\ gen.pos = "awaitTask" => gen.p # 0
    /\ (gen.pos = "awaitTask" /\ promises[gen.p].st = "resolved") =>
         Truthy(promises[gen.p].v)

\* More events than the initial window holds were consumed, and the next
\* pull finds a task.
C12_Witness ==
  /\ Unbounded
  /\ Len(yielded) = INITIAL_PIPELINE_BURST + 1
  /\ gen.pos = "idle"
  /\ tasks # <<>>

\* C13, as claimed: a call of rpc writes one request and registers no
\* listener, and the request carries the id that was given, whatever its
\* value, and no id when none was given.
C13_RpcCarriesGivenId ==
  [][\A call \in RpcCalls, id \in RpcIds :
       Rpc(call[1], call[2], id) =>
         /\ Len(sent') = Len(sent) + 1
         /\ listeners' = listeners
         /\ Last(sent').method = call[1]
         /\ Last(sent').id = IF id = Undef THEN NoId ELSE id]_vars

\* C14, as claimed: a value that decode has produced, encoded and decoded
\* again, is the same value.
C14_DecodeEncodeRoundTrip ==
  redecoded # NotRun => redecoded = decoded

\* The paths (sequences of keys) from the root of a tree to its nodes, and
\* the node at the end of a path.
RECURSIVE Paths(_)
Paths(tree) ==
  {<<>>} \cup
    IF IsObject(tree)
      THEN UNION {{<<k>> \o q : q \in Paths(tree.f[k])} : k \in DOMAIN tree.f}
      ELSE {}

RECURSIVE At(_, _)
At(tree, path) ==
  IF path = <<>> THEN tree ELSE At(tree.f[Head(path)], Tail(path))

\* The key through which the node at the end of a path is reached.
ParentKey(path) == IF path = <<>> THEN NoParentKey ELSE path[Len(path)]

\* An object of the quantity rule: it has a field ada, or is reached through
\* a field mint or value.
QuantityObject(tree, path) ==
  LET node == At(tree, path)
  IN /\ IsObject(node)
     /\ Has(node, "ada") \/ ParentKey(path) \in {"mint", "value"}

\* An object no rule of the pass applies to: the pass goes on to its fields.
PlainObject(tree, path) ==
  LET node == At(tree, path)
  IN /\ IsObject(node)
     /\ ~Has(node, "lovelace") /\ ~Has(node, "ada")
     /\ ParentKey(path) \notin {"mint", "value", "labels"}
     /\ ~(Has(node, "clause") /\ Has(node, "atLeast"))

\* C15, as claimed, for the quantity objects that the pass reaches through
\* plain objects only: once a document is decoded, every integer one or two
\* levels below such an object is a BigInt, and every number written as a
\* safe integer more than two levels below it is a Number.
C15_QuantityLeavesTwoLevels ==
  (decoded # NotRun /\ decoded.t # "raised") =>
    \A p \in Paths(input) :
      (/\ QuantityObject(input, p)
       /\ \A i \in 0..(Len(p) - 1) : PlainObject(input, SubSeq(p, 1, i))) =>
        \A q \in Paths(At(input, p)) :
          LET leaf == At(input, p \o q)
          IN (leaf.t = "lit" /\ p \o q \in Paths(decoded)) =>
               LET v == At(decoded, p \o q)
               IN /\ (Len(q) \in {1, 2} /\ leaf.int) => v.t = "bigint"
                  /\ (Len(q) > 2 /\ leaf.int /\ ~leaf.wide) => v = Num(leaf.n)

\* The nextBlock requests written since the negotiation.
FetchSent ==
  Cardinality({k \in (LastIntersection(Len(sent)) + 1)..Len(sent) :
                 sent[k].method = "nextBlock"})

\* The follower has started and no chain event has been handed over yet (at
\* most the handshake's roll-backward has come in).
WindowJustFilled ==
  /\ follower.listening
  /\ delivered <= LastIntersection(Len(sent)) + 1

WaitingEvents ==
  Cardinality({i \in 1..Len(tasks) : promises[tasks[i]].st = "resolved"})

\* C17, as claimed: as long as the consumer has retired nothing, no fetch
\* request is sent beyond the initial window, and the events waiting for the
\* consumer are never more than the burst size.
C17_SlowConsumerDelaysRefills ==
  /\ (follower.listening /\ gen.pos = "idle" /\ yielded = <<>>) =>
       FetchSent <= Min(CountOr(follower.count, INITIAL_PIPELINE_BURST),
                        INITIAL_PIPELINE_BURST) + 1
  /\ WaitingEvents <= INITIAL_PIPELINE_BURST

\* The follower was started without points, with valid arguments.
TipStart ==
  /\ follower.called
  /\ IsNullish(follower.start)
  /\ ~InvalidArgument

\* C18: started without points, the follower first writes one request, for
\* the tip, and nothing else; after the first message, one findIntersection
\* whose points are the tip of that message; after the second message, and
\* not before, the block listener is installed and the window requested.
\* Until then at most one request is unanswered.
C18_TipStartInOrder ==
  TipStart =>
    /\ Len(sent) >= 1
    /\ sent[1] = newRpcRequest("nextBlock", Undef, Undef)
    /\ delivered = 0 =>
         /\ Len(sent) = 1
         /\ listeners = <<Listener("tip", TRUE, 0)>>
    /\ delivered >= 1 =>
         /\ Len(sent) >= 2
         /\ sent[2] = newRpcRequest("findIntersection",
                        IntersectParams(Points(<<Response(1).result.tip>>)), Undef)
    /\ delivered = 1 =>
         /\ Len(sent) = 2
         /\ listeners = <<Listener("tipIntersection", TRUE, 0)>>
    /\ follower.listening <=> delivered >= 2
    /\ follower.call.st = "resolved" <=> delivered >= 2
    /\ \A k \in 3..Len(sent) : sent[k].method = "nextBlock"
    /\ ~follower.listening =>
         /\ Len(sent) - delivered <= 1
         /\ promises = <<>> /\ tasks = <<>> /\ signals = <<>>

\* The second message has just come in: the listener is there and the
\* window has been requested.
C18_Witness ==
  /\ TipStart
  /\ delivered = 2
  /\ follower.listening
  /\ Len(sent) = INITIAL_PIPELINE_BURST + 3

\* C19, as claimed: started without points, when the peer answers the tip
\* request or the intersection request with an error, the start rejects
\* with that error and the follower does not start: no block listener, no
\* fetch request beyond the one that asked for the tip.
C19_TipStartRefused ==
  \A k \in {1, 2} :
    (TipStart /\ delivered >= k /\ Response(k).error # Undef
       /\ \A j \in 1..(k - 1) : Response(j).error = Undef) =>
      /\ follower.call = [st |-> "rejected", v |-> Response(k).error]
      /\ ~follower.listening
      /\ Len(sent) = k
      /\ promises = <<>> /\ tasks = <<>> /\ signals = <<>>

\* C20, as claimed: once the sequence of a finite follower has ended, no
\* listener of the follower is left on the channel, a message that comes in
\* later makes no listener throw, and an ask made later is settled by its
\* answer.
C20_NoListenerLeft ==
  (FiniteCount /\ gen.pos = "done") =>
    /\ \A i \in 1..Len(listeners) : listeners[i].h # "block"
    /\ uncaught = <<>>
    /\ delivered = Len(sent) => AsksSettled

\* The follower was given a count, a non-negative integer.
CountGiven ==
  follower.called /\ IsNumber(follower.count) /\ NumberIsInteger(follower.count)
    /\ follower.count.n >= 0

\* C21: with a finite count c >= 0, the follower never has more than c + 1
\* fetch requests written since the negotiation, and has exactly c + 1 of
\* them once c events have been handed over: the initial fill and the
\* refills add up to c + 1, for a count below, equal to or above the burst,
\* and the requests written plus the refills still to come stay within c + 1.
C21_FetchBudget ==
  /\ CountGiven => FetchSent <= follower.count.n + 1
  /\ (FiniteCount /\ EventsDelivered >= follower.count.n) =>
       FetchSent = follower.count.n + 1
  /\ FiniteCount =>
       FetchSent + Cardinality({i \in 1..Len(signals) : signals[i].again})
         <= follower.count.n + 1

\* A count above the burst: its events were all handed over, the last of
\* them past the refills.
C21_Witness ==
  /\ FiniteCount
  /\ follower.count.n > INITIAL_PIPELINE_BURST
  /\ EventsDelivered = follower.count.n
  /\ FetchSent = follower.count.n + 1
  /\ Len(promises) > pipelined(follower.count) + 1

\* C22: asks made without waiting (no follower on the channel): a message
\* settles every ask that is pending when it comes in, all of them with
\* that one message, and settles no other; so two asks made before any
\* answer both settle with the first message, the answer to the first
\* request, and the second message settles none.
C22_EveryWaiterSettles ==
  [][delivered' = delivered + 1 =>
       /\ Len(asks') = Len(asks)
       /\ \A k \in 1..Len(asks) :
            asks'[k] = IF asks[k].st = "pending"
                         THEN AskOutcome(delivered + 1) ELSE asks[k]
       /\ listeners' = <<>>]_vars

\* Two asks of different queries were made before the first answer: both
\* hold the first answer, the second answer has come in and settled neither.
C22_Witness ==
  /\ Len(asks) = 2
  /\ delivered = 2
  /\ AskOutcome(1) # AskOutcome(2)
  /\ asks[1] = AskOutcome(1)
  /\ asks[2] = AskOutcome(1)

\* The integer literals of a document below a field labels that the pass
\* reaches through plain objects only, as paths from the root (no field
\* "constructor" on the way).
LabelsLeaves(tree) ==
  {r \in Paths(tree) :
     /\ At(tree, r).t = "lit" /\ At(tree, r).int
     /\ \A i \in 1..Len(r) : r[i] # "constructor"
     /\ \E i \in 1..Len(r) :
          /\ r[i] = "labels"
          /\ \A j \in 0..(i - 1) : PlainObject(tree, SubSeq(r, 1, j))}

\* C23, as claimed: once a document is decoded, every integer below a field
\* labels, at any depth and whatever the field names below labels are, is a
\* BigInt.
C23_LabelsAllDepths ==
  decoded # NotRun =>
    \A r \in LabelsLeaves(input) :
      /\ decoded.t # "raised"
      /\ r \in Paths(decoded)
      /\ At(decoded, r).t = "bigint"

\* A document of the frame claim: no field "constructor" and no number
\* written with a fraction anywhere in it.
RECURSIVE Plain(_)
Plain(tree) ==
  IF IsObject(tree)
    THEN /\ "constructor" \notin DOMAIN tree.f
         /\ \A k \in DOMAIN tree.f : Plain(tree.f[k])
    ELSE tree.t = "lit" => tree.int

\* b is a with nothing changed but numbers made BigInts: the same
\* structure, the same field names, the same leaves that are not numbers.
RECURSIVE OnlyNumbersChanged(_, _)
OnlyNumbersChanged(a, b) ==
  IF IsObject(a)
    THEN /\ b.t = a.t
         /\ DOMAIN b.f = DOMAIN a.f
         /\ \A k \in DOMAIN a.f : OnlyNumbersChanged(a.f[k], b.f[k])
    ELSE IF a.t = "number"
      THEN b = a \/ b = BigInt(a.n, FALSE)
      ELSE b = a

\* C24, as claimed: decode returns the whole document as parsed, with
\* nothing changed but numbers made BigInts, also when the document or a
\* part of it is a clause "some" with atLeast: its atLeast is a BigInt and
\* its from is still in its place.
C24_OnlyNumericLeavesChange ==
  (decoded # NotRun /\ Plain(input)) =>
    /\ decoded.t # "raised"
    /\ OnlyNumbersChanged(JsonBigParse(input), decoded)
    /\ \A p \in Paths(input) :
         LET node == At(input, p)
         IN (Has(node, "clause") /\ node.f["clause"] = Str("some")
               /\ Has(node, "atLeast") /\ p \in Paths(decoded)
               /\ Has(At(decoded, p), "atLeast")) =>
              At(decoded, p).f["atLeast"].t = "bigint"

\* A field "constructor" somewhere in the document.
RECURSIVE HasConstructor(_)
HasConstructor(tree) ==
  /\ IsObject(tree)
  /\ \/ "constructor" \in DOMAIN tree.f
     \/ \E k \in DOMAIN tree.f : HasConstructor(tree.f[k])

\* The document with every field "constructor" named "constr" and nothing
\* else changed.
RECURSIVE FieldRenamed(_)
FieldRenamed(tree) ==
  LET renamed(k) == IF k = "constructor" THEN "constr" ELSE k
  IN IF IsObject(tree)
       THEN [tree EXCEPT !.f =
               [k2 \in {renamed(k) : k \in DOMAIN tree.f} |->
                  FieldRenamed(tree.f[CHOOSE k \in DOMAIN tree.f : renamed(k) = k2])]]
       ELSE tree

\* C25, as claimed: a payload with a field "constructor" is decoded as the
\* same payload with only that field name turned into "constr", every other
\* field and every value as it was; a payload without such a field is
\* decoded, or refused, by the first parse alone.
C25_OnlyFieldNameReplaced ==
  decoded # NotRun =>
    decoded = IF HasConstructor(input)
                THEN sanitizeParsed(FieldRenamed(input))
                ELSE sanitizeParsed(input)

====
